---- MODULE Spec2Model ----
(***************************************************************************)
(* Model of src/plot.py: plot_tsne, plot_dbscan_results and                *)
(* plot_coreset_results.                                                   *)
(*                                                                         *)
(* numpy arrays are sequences; a 0-based numpy position p is element p + 1 *)
(* of the sequence.  Row i of the embedding matrix is identified by its    *)
(* row index i, and the projected point of row i is the record             *)
(* [src |-> i]: the coordinates themselves are opaque.                     *)
(* Marker sizes are in tenths of a point^2, so that s=0.1 is an integer.   *)
(***************************************************************************)
EXTENDS Integers, Sequences, FiniteSets, TLC

VARIABLES
    fn,           \* the function that was called
    pc,           \* position in the running function
    err,          \* "none", or the exception that ended the call
    embeds,       \* embedding matrix, one row identity per row
    y,            \* label vector
    counts,       \* count vector
    coreset_ids,  \* coreset indices (plot_coreset_results)
    min_size,     \* threshold
    S,            \* stride
    kept_tsne,    \* retained row indices
    kept_coreset, \* np.array of positions in kept_tsne: [data, dtype]
    X_embedded,   \* projection result: [device, obj, rows], obj the array
                  \* object that holds the rows
    px, py, plegend, ptitle,   \* arguments of the active plot_tsne call
    todo,         \* labels plot_tsne's loop still has to visit
    ret,          \* where plot_tsne returns to
    nfig,         \* number of plt.figure() calls
    axes,         \* the axes of the current figure, last one current
    shown,        \* number of plt.show() calls
    trace         \* calls made on the projector and the drawing backend

vars == <<fn, pc, err, embeds, y, counts, coreset_ids, min_size, S, kept_tsne,
          kept_coreset, X_embedded, px, py, plegend, ptitle, todo, ret,
          nfig, axes, shown, trace>>

-----------------------------------------------------------------------------
(* Bounds of the explored inputs *)

MaxPts == 2
MaxLabel == 1
MaxCounts == 3
MaxCoreset == 3
MaxRows == 220

(* Program constants *)

DefaultMinSize == 100
StrideDivisor == 100
NoiseMarkerSize == 1
SmallMarkerSize == 10
BigMarkerSize == 100
LegendMarkerSize == 300

NoLabel == <<"none">>
ClusterName(label) == <<"Cluster", label>>

-----------------------------------------------------------------------------
(* numpy and Python helpers *)

Max(a, b) == IF a >= b THEN a ELSE b

Range(s) == {s[i] : i \in 1..Len(s)}

\* np.arange(n)
Arange(n) == [i \in 1..n |-> i - 1]

\* a[::step]: the elements at positions 0, step, 2*step, ... below len(a)
Slice_DropTail(a, step) ==
    [k \in 1..(Len(a) \div step) |-> a[(k - 1) * step + 1]]

Slice(a, step) ==
    LET at == {p \in 0..(Len(a) - 1) : p % step = 0}
    IN  [k \in 1..Cardinality(at) |-> a[(k - 1) * step + 1]]

\* np.sort: ascending, duplicates kept.  Element i goes to the position
\* given by the number of smaller elements and of equal ones before it.
Sort(s) ==
    LET n == Len(s)
        rank == [i \in 1..n |->
                    Cardinality({j \in 1..n : s[j] < s[i]})
                  + Cardinality({j \in 1..(i - 1) : s[j] = s[i]}) + 1]
    IN  [k \in 1..n |-> s[CHOOSE i \in 1..n : rank[i] = k]]

\* np.unique: the distinct values, ascending
Unique(s) ==
    IF s = <<>> THEN <<>>
    ELSE LET T == Range(s)
             lo == CHOOSE v \in T : \A w \in T : v <= w
             hi == CHOOSE v \in T : \A w \in T : w <= v
         IN  SelectSeq([i \in 1..(hi - lo + 1) |-> lo + i - 1],
                       LAMBDA v : v \in T)

\* np.where(a == v)[0]: the 0-based positions holding v
Where(a, v) ==
    SelectSeq([i \in 1..Len(a) |-> i - 1], LAMBDA p : a[p + 1] = v)

\* a[idx] for a sequence idx of 0-based positions
Take(a, idx) == [k \in 1..Len(idx) |-> a[idx[k] + 1]]

\* np.array(list): an empty list gives a float64 array
NpArray(list) ==
    [data |-> list, dtype |-> IF list = <<>> THEN "float64" ELSE "int64"]

\* an array can index another one only with an integer dtype
CanIndex(arr) == arr.dtype = "int64"

\* Python/numpy a[i] on a 1-d array: negative i counts from the end
InRange(a, i) == -Len(a) <= i /\ i < Len(a)
GetItem(a, i) == IF i >= 0 THEN a[i + 1] ELSE a[Len(a) + i + 1]

-----------------------------------------------------------------------------
(* The projector *)

Point(r) == [src |-> r]

\* TSNE(n_components=2).fit_transform(rows), a library call: one point per
\* row, in the same order
FitTransform(rows) == [i \in 1..Len(rows) |-> Point(rows[i])]

\* X_embedded.values.get(): a new host array holding a device result's rows
ValuesGet(X) == [device |-> FALSE, obj |-> "host copy", rows |-> X.rows]

-----------------------------------------------------------------------------
(* plot_tsne *)

EmptyPanel ==
    [layers |-> <<>>, legend |-> [made |-> FALSE, handles |-> <<>>],
     axis_on |-> TRUE, title |-> ""]

\* pyplot draws on the current axes and creates one if the figure has none
Gca(ax) == IF ax = <<>> THEN <<EmptyPanel>> ELSE ax

Scatter(ax, layer) ==
    LET a == Gca(ax) IN [a EXCEPT ![Len(a)].layers = Append(@, layer)]

NoiseLayer(pts) ==
    [of |-> -1, pts |-> pts, s |-> NoiseMarkerSize, c |-> "gray",
     label |-> NoLabel]

ClusterLayer_AtLeast(label, pts, count, threshold) ==
    IF count >= threshold
    THEN [of |-> label, pts |-> pts, s |-> BigMarkerSize, c |-> "cycle",
          label |-> ClusterName(label)]
    ELSE [of |-> label, pts |-> pts, s |-> SmallMarkerSize, c |-> "cycle",
          label |-> NoLabel]

ClusterLayer_TinySmall(label, pts, count, threshold) ==
    IF count > threshold
    THEN [of |-> label, pts |-> pts, s |-> BigMarkerSize, c |-> "cycle",
          label |-> ClusterName(label)]
    ELSE [of |-> label, pts |-> pts, s |-> NoiseMarkerSize, c |-> "cycle",
          label |-> NoLabel]

ClusterLayer(label, pts, count, threshold) ==
    IF count > threshold
    THEN [of |-> label, pts |-> pts, s |-> BigMarkerSize, c |-> "cycle",
          label |-> ClusterName(label)]
    ELSE [of |-> label, pts |-> pts, s |-> SmallMarkerSize, c |-> "cycle",
          label |-> NoLabel]

\* plt.legend(): one handle per labelled layer of the current axes, its
\* glyph size the layer's; the loop then sets every handle's size
Labelled(layers) == SelectSeq(layers, LAMBDA l : l.label # NoLabel)

MakeLegend_KeepSizes(panel) ==
    LET ls == Labelled(panel.layers)
    IN  [made |-> TRUE,
         handles |-> [i \in 1..Len(ls) |-> [label |-> ls[i].label,
                                            size |-> ls[i].s]]]

MakeLegend(panel) ==
    LET ls == Labelled(panel.layers)
    IN  [made |-> TRUE,
         handles |-> [i \in 1..Len(ls) |-> [label |-> ls[i].label,
                                            size |-> LegendMarkerSize]]]

Event(ev, x, yy, lg, tt) ==
    [ev |-> ev, x |-> x, y |-> yy, legend |-> lg, title |-> tt]

SimpleEvent(ev) == Event(ev, <<>>, <<>>, FALSE, "")

-----------------------------------------------------------------------------
(* Inputs *)

Labels == -2..MaxLabel
CountVals == {DefaultMinSize, DefaultMinSize + 50}
SeqsUpTo(T, n) == UNION {[1..k -> T] : k \in 0..n}

ScenarioCounts == <<50, 30, 150, 20>>
ShortCounts == <<50, 30>>
\* (number of distinct labels starting at -1, count vector)
Clusterings == {<<1, ScenarioCounts>>, <<4, ScenarioCounts>>, <<4, ShortCounts>>}
LabelPattern(n, K) == [i \in 1..n |-> ((i - 1) % K) - 1]

DbscanRows == (1..MaxRows) \cup {250, 500}
CoresetRows == {1, 3, 40, 203, 250, 500}
CoresetCandidates(n) == {0, 7, 450, 499} \cap (0..(n - 1))

Idle ==
    /\ err = "none" /\ S = 0 /\ kept_tsne = <<>>
    /\ kept_coreset = [data |-> <<>>, dtype |-> "unset"]
    /\ X_embedded = [device |-> FALSE, obj |-> "unset", rows |-> <<>>]
    /\ todo = <<>> /\ nfig = 0 /\ axes = <<>> /\ shown = 0 /\ trace = <<>>

InitTsne ==
    /\ fn = "plot_tsne" /\ pc = "tsne_enter" /\ ret = "done"
    /\ embeds = <<>> /\ coreset_ids = <<>>
    /\ y \in SeqsUpTo(Labels, MaxPts)
    /\ counts \in SeqsUpTo(CountVals, MaxCounts)
    /\ min_size = DefaultMinSize
    /\ px = FitTransform(Arange(Len(y))) /\ py = y
    /\ plegend \in BOOLEAN /\ ptitle \in {"", "t-SNE"}
    /\ Idle

InitDbscan ==
    /\ fn = "plot_dbscan_results" /\ pc = "d_stride" /\ ret = "done"
    /\ \E n \in DbscanRows, cl \in Clusterings :
          /\ embeds = Arange(n)
          /\ y = LabelPattern(n, cl[1])
          /\ counts = cl[2]
    /\ coreset_ids = <<>>
    /\ min_size = DefaultMinSize
    /\ px = <<>> /\ py = <<>> /\ plegend = FALSE /\ ptitle = ""
    /\ Idle

InitCoreset ==
    /\ fn = "plot_coreset_results" /\ pc = "c_stride" /\ ret = "done"
    /\ \E n \in CoresetRows, cl \in Clusterings :
          /\ embeds = Arange(n)
          /\ y = LabelPattern(n, cl[1])
          /\ counts = cl[2]
          /\ coreset_ids \in SeqsUpTo(CoresetCandidates(n), MaxCoreset)
    /\ min_size = DefaultMinSize
    /\ px = <<>> /\ py = <<>> /\ plegend = FALSE /\ ptitle = ""
    /\ Idle

Init == InitTsne \/ InitDbscan \/ InitCoreset

inputs == <<fn, embeds, y, counts, coreset_ids, min_size>>
frame == <<px, py, plegend, ptitle, todo, ret>>
canvas == <<nfig, axes, shown>>
derived == <<S, kept_tsne, kept_coreset, X_embedded>>

-----------------------------------------------------------------------------
(* plot_tsne, lines 49-68 *)

\* line 49: np.unique(y) is evaluated once, before the loop
TsneEnter ==
    /\ pc = "tsne_enter"
    /\ todo' = Unique(py)
    /\ pc' = "tsne_loop"
    /\ UNCHANGED <<inputs, derived, canvas, err, trace, px, py, plegend,
                   ptitle, ret>>

\* lines 50-53: the noise label
TsneNoise ==
    /\ pc = "tsne_loop" /\ todo # <<>> /\ Head(todo) = -1
    /\ axes' = Scatter(axes, NoiseLayer(Take(px, Where(py, -1))))
    /\ todo' = Tail(todo)
    /\ UNCHANGED <<inputs, derived, nfig, shown, err, trace, pc, px, py,
                   plegend, ptitle, ret>>

\* lines 50, 55-58: any other label whose count can be read
TsneCluster ==
    /\ pc = "tsne_loop" /\ todo # <<>> /\ Head(todo) # -1
    /\ InRange(counts, Head(todo) + 1)
    /\ LET label == Head(todo)
       IN  axes' = Scatter(axes, ClusterLayer(label, Take(px, Where(py, label)),
                                     GetItem(counts, label + 1), min_size))
    /\ todo' = Tail(todo)
    /\ UNCHANGED <<inputs, derived, nfig, shown, err, trace, pc, px, py,
                   plegend, ptitle, ret>>

\* line 55: counts[label + 1] raises IndexError, nothing catches it
TsneCountsIndexError ==
    /\ pc = "tsne_loop" /\ todo # <<>> /\ Head(todo) # -1
    /\ ~InRange(counts, Head(todo) + 1)
    /\ err' = "IndexError: index out of bounds"
    /\ pc' = "raised"
    /\ UNCHANGED <<inputs, derived, canvas, trace, frame>>

\* lines 60-63
TsneLegend ==
    /\ pc = "tsne_loop" /\ todo = <<>>
    /\ axes' = IF plegend
               THEN LET a == Gca(axes)
                    IN  [a EXCEPT ![Len(a)].legend = MakeLegend(a[Len(a)])]
               ELSE axes
    /\ pc' = "tsne_finish"
    /\ UNCHANGED <<inputs, derived, nfig, shown, err, trace, frame>>

\* lines 65-68, then return to the caller
TsneFinish ==
    /\ pc = "tsne_finish"
    /\ axes' = LET a == Gca(axes)
               IN  [a EXCEPT ![Len(a)].axis_on = FALSE,
                             ![Len(a)].title = IF ptitle # "" THEN ptitle ELSE @]
    /\ pc' = ret
    /\ UNCHANGED <<inputs, derived, nfig, shown, err, trace, frame>>

-----------------------------------------------------------------------------
(* plot_dbscan_results, lines 90-103 *)

Stride(n) == Max(n \div StrideDivisor, 1)

DbscanStride ==
    /\ pc = "d_stride"
    /\ S' = Stride(Len(embeds))
    /\ pc' = "d_project"
    /\ UNCHANGED <<inputs, kept_tsne, kept_coreset, X_embedded, canvas, err,
                   trace, frame>>

\* lines 92-94: the projection succeeds, on a host or a device backend
DbscanProject ==
    /\ pc = "d_project"
    /\ \E dev \in BOOLEAN :
          X_embedded' = [device |-> dev, obj |-> "fit result",
                         rows |-> FitTransform(Slice(embeds, S))]
    /\ trace' = Append(trace, Event("fit_transform", Slice(embeds, S), <<>>,
                                    FALSE, ""))
    /\ pc' = "d_transfer"
    /\ UNCHANGED <<inputs, S, kept_tsne, kept_coreset, canvas, err, frame>>

\* lines 92-94: the projector raises
DbscanProjectFails ==
    /\ pc = "d_project"
    /\ trace' = Append(trace, Event("fit_transform", Slice(embeds, S), <<>>,
                                    FALSE, ""))
    /\ err' = "ProjectionError"
    /\ pc' = "raised"
    /\ UNCHANGED <<inputs, derived, canvas, frame>>

\* lines 96-99 without the except clause
DbscanTransfer_Uncaught ==
    /\ pc = "d_transfer"
    /\ IF X_embedded.device
       THEN X_embedded' = ValuesGet(X_embedded) /\ pc' = "d_figure"
                                                /\ err' = err
       ELSE X_embedded' = X_embedded /\ pc' = "raised"
                                     /\ err' = "AttributeError"
    /\ UNCHANGED <<inputs, S, kept_tsne, kept_coreset, canvas, trace, frame>>

\* lines 96-99: a host result has no .values, the AttributeError is passed
DbscanTransfer ==
    /\ pc = "d_transfer"
    /\ X_embedded' = IF X_embedded.device THEN ValuesGet(X_embedded)
                     ELSE X_embedded
    /\ pc' = "d_figure"
    /\ UNCHANGED <<inputs, S, kept_tsne, kept_coreset, canvas, err, trace,
                   frame>>

\* line 101
DbscanFigure ==
    /\ pc = "d_figure"
    /\ nfig' = nfig + 1
    /\ axes' = <<>>
    /\ trace' = Append(trace, SimpleEvent("figure"))
    /\ pc' = "d_plot"
    /\ UNCHANGED <<inputs, derived, shown, err, frame>>

\* line 102
DbscanPlot ==
    /\ pc = "d_plot"
    /\ px' = X_embedded.rows
    /\ py' = Slice(y, S)
    /\ plegend' = TRUE
    /\ ptitle' = ""
    /\ ret' = "d_show"
    /\ trace' = Append(trace, Event("plot_tsne", px', py', plegend', ptitle'))
    /\ pc' = "tsne_enter"
    /\ UNCHANGED <<inputs, derived, canvas, err, todo>>

\* line 103
DbscanShow ==
    /\ pc = "d_show"
    /\ shown' = shown + 1
    /\ trace' = Append(trace, SimpleEvent("show"))
    /\ pc' = "done"
    /\ UNCHANGED <<inputs, derived, nfig, axes, err, frame>>

-----------------------------------------------------------------------------
(* plot_coreset_results, lines 125-166 *)

\* lines 128-129 without the np.unique call
KeptTsne_NoUnique(n, step, ids) ==
    Sort(Slice(Arange(n), step) \o ids)

\* lines 128-129 with the strided rows alone
KeptTsne_StridedOnly(n, step, ids) ==
    Sort(Unique(Slice(Arange(n), step)))

\* lines 128-129
KeptTsne(n, step, ids) ==
    Sort(Unique(Slice(Arange(n), step) \o ids))

\* lines 130-132: positions of kept whose value is in ids
KeptCoreset(kept, ids) ==
    NpArray(SelectSeq([i \in 1..Len(kept) |-> i - 1],
                      LAMBDA idx : kept[idx + 1] \in Range(ids)))

CoresetStride ==
    /\ pc = "c_stride"
    /\ S' = Stride(Len(embeds))
    /\ pc' = "c_subsample"
    /\ UNCHANGED <<inputs, kept_tsne, kept_coreset, X_embedded, canvas, err,
                   trace, frame>>

CoresetSubsample ==
    /\ pc = "c_subsample"
    /\ kept_tsne' = KeptTsne(Len(embeds), S, coreset_ids)
    /\ kept_coreset' = KeptCoreset(kept_tsne', coreset_ids)
    /\ pc' = "c_project"
    /\ UNCHANGED <<inputs, S, X_embedded, canvas, err, trace, frame>>

\* lines 135-136: the projection succeeds
CoresetProject ==
    /\ pc = "c_project"
    /\ \E dev \in BOOLEAN :
          X_embedded' = [device |-> dev, obj |-> "fit result",
                         rows |-> FitTransform(Take(embeds, kept_tsne))]
    /\ trace' = Append(trace, Event("fit_transform", Take(embeds, kept_tsne),
                                    <<>>, FALSE, ""))
    /\ pc' = "c_transfer"
    /\ UNCHANGED <<inputs, S, kept_tsne, kept_coreset, canvas, err, frame>>

\* lines 135-136: the projector raises
CoresetProjectFails ==
    /\ pc = "c_project"
    /\ trace' = Append(trace, Event("fit_transform", Take(embeds, kept_tsne),
                                    <<>>, FALSE, ""))
    /\ err' = "ProjectionError"
    /\ pc' = "raised"
    /\ UNCHANGED <<inputs, derived, canvas, frame>>

\* lines 138-141
CoresetTransfer ==
    /\ pc = "c_transfer"
    /\ X_embedded' = IF X_embedded.device THEN ValuesGet(X_embedded)
                     ELSE X_embedded
    /\ pc' = "c_figure"
    /\ UNCHANGED <<inputs, S, kept_tsne, kept_coreset, canvas, err, trace,
                   frame>>

\* line 144
CoresetFigure ==
    /\ pc = "c_figure"
    /\ nfig' = nfig + 1
    /\ axes' = <<>>
    /\ trace' = Append(trace, SimpleEvent("figure"))
    /\ pc' = "c_subplot1"
    /\ UNCHANGED <<inputs, derived, shown, err, frame>>

\* line 146
CoresetSubplot1 ==
    /\ pc = "c_subplot1"
    /\ axes' = Append(axes, EmptyPanel)
    /\ trace' = Append(trace, SimpleEvent("subplot"))
    /\ pc' = "c_plot1"
    /\ UNCHANGED <<inputs, derived, nfig, shown, err, frame>>

\* lines 147-154
CoresetPlot1 ==
    /\ pc = "c_plot1"
    /\ px' = X_embedded.rows
    /\ py' = Take(y, kept_tsne)
    /\ plegend' = FALSE
    /\ ptitle' = "Before Coreset"
    /\ ret' = "c_subplot2"
    /\ trace' = Append(trace, Event("plot_tsne", px', py', plegend', ptitle'))
    /\ pc' = "tsne_enter"
    /\ UNCHANGED <<inputs, derived, canvas, err, todo>>

\* line 156
CoresetSubplot2 ==
    /\ pc = "c_subplot2"
    /\ axes' = Append(axes, EmptyPanel)
    /\ trace' = Append(trace, SimpleEvent("subplot"))
    /\ pc' = "c_plot2"
    /\ UNCHANGED <<inputs, derived, nfig, shown, err, frame>>

\* lines 157-164 with the second panel given every projected row
CoresetPlot2_AllRows ==
    /\ pc = "c_plot2"
    /\ CanIndex(kept_coreset)
    /\ px' = X_embedded.rows
    /\ py' = Take(y, kept_tsne)
    /\ plegend' = FALSE
    /\ ptitle' = "After Coreset"
    /\ ret' = "c_show"
    /\ trace' = Append(trace, Event("plot_tsne", px', py', plegend', ptitle'))
    /\ pc' = "tsne_enter"
    /\ UNCHANGED <<inputs, derived, canvas, err, todo>>

\* lines 157-164
CoresetPlot2 ==
    /\ pc = "c_plot2"
    /\ CanIndex(kept_coreset)
    /\ px' = Take(X_embedded.rows, kept_coreset.data)
    /\ py' = Take(Take(y, kept_tsne), kept_coreset.data)
    /\ plegend' = FALSE
    /\ ptitle' = "After Coreset"
    /\ ret' = "c_show"
    /\ trace' = Append(trace, Event("plot_tsne", px', py', plegend', ptitle'))
    /\ pc' = "tsne_enter"
    /\ UNCHANGED <<inputs, derived, canvas, err, todo>>

\* line 158: X_embedded[kept_coreset] with a float64 index array raises
CoresetPlot2IndexError ==
    /\ pc = "c_plot2"
    /\ ~CanIndex(kept_coreset)
    /\ err' = "IndexError: index array is not of integer type"
    /\ pc' = "raised"
    /\ UNCHANGED <<inputs, derived, canvas, trace, frame>>

\* line 166
CoresetShow ==
    /\ pc = "c_show"
    /\ shown' = shown + 1
    /\ trace' = Append(trace, SimpleEvent("show"))
    /\ pc' = "done"
    /\ UNCHANGED <<inputs, derived, nfig, axes, err, frame>>

-----------------------------------------------------------------------------

Next ==
    \/ TsneEnter \/ TsneNoise \/ TsneCluster \/ TsneCountsIndexError
    \/ TsneLegend \/ TsneFinish
    \/ DbscanStride \/ DbscanProject \/ DbscanProjectFails \/ DbscanTransfer
    \/ DbscanFigure \/ DbscanPlot \/ DbscanShow
    \/ CoresetStride \/ CoresetSubsample \/ CoresetProject
    \/ CoresetProjectFails \/ CoresetTransfer \/ CoresetFigure
    \/ CoresetSubplot1 \/ CoresetPlot1 \/ CoresetSubplot2 \/ CoresetPlot2
    \/ CoresetPlot2IndexError \/ CoresetShow

Spec == Init /\ [][Next]_vars

-----------------------------------------------------------------------------
(* Properties *)

InDbscan == fn = "plot_dbscan_results"
InCoreset == fn = "plot_coreset_results"
R == Len(embeds)

\* the subsampling of plot_coreset_results has run
Subsampled == InCoreset /\ pc \notin {"c_stride", "c_subsample"}
\* the projection of plot_dbscan_results has returned
Projected == InDbscan /\ pc \notin {"d_stride", "d_project"} /\ err # "ProjectionError"

StrictlyIncreasing(q) == \A i \in 1..(Len(q) - 1) : q[i] < q[i + 1]
HasDuplicate(q) == \E i, j \in 1..Len(q) : i < j /\ q[i] = q[j]
CeilDiv(a, b) == (a + b - 1) \div b

\* the rows 0, S, 2S, ... of an R-row matrix
StridedRows == {k * S : k \in 0..R} \cap (0..(R - 1))

CurPanel == IF axes = <<>> THEN EmptyPanel ELSE axes[Len(axes)]

RECURSIVE PointCount(_)
PointCount(layers) ==
    IF layers = <<>> THEN 0
    ELSE Len(Head(layers).pts) + PointCount(Tail(layers))

\* C1: in plot_coreset_results kept_tsne is sort(unique(T u C)): strictly
\* increasing, hence duplicate-free, holding every strided row index and
\* every coreset index and nothing else.
C1_KeptTsneIsSortedUnion ==
    Subsampled =>
        /\ StrictlyIncreasing(kept_tsne)
        /\ Range(coreset_ids) \subseteq Range(kept_tsne)
        /\ StridedRows \subseteq Range(kept_tsne)
        /\ Range(kept_tsne) = StridedRows \cup Range(coreset_ids)

\* a repeated coreset index, and one that the stride alone would skip
C1_Witness ==
    /\ Subsampled /\ S > 1
    /\ HasDuplicate(coreset_ids)
    /\ \E c \in Range(coreset_ids) : c \notin StridedRows

\* C2, as claimed: kept_coreset indexes kept_tsne giving the distinct coreset
\* row indices in ascending order, whatever coreset_ids holds, and the
\* second panel is drawn from the points and labels of exactly those rows.
C2_AsClaimed ==
    InCoreset =>
        /\ err # "IndexError: index array is not of integer type"
        /\ (Subsampled /\ CanIndex(kept_coreset)) =>
              LET rows == Take(kept_tsne, kept_coreset.data)
              IN  StrictlyIncreasing(rows) /\ Range(rows) = Range(coreset_ids)
        /\ ret = "c_show" =>
              LET rows == Take(kept_tsne, kept_coreset.data)
              IN  /\ px = [i \in 1..Len(rows) |-> Point(rows[i])]
                  /\ py = [i \in 1..Len(rows) |-> y[rows[i] + 1]]

\* C2, the part of the claim the code keeps: with at least one coreset index
\* the selection is the ascending distinct coreset rows and panel 2 gets
\* their points and labels.
C2_NonEmptyCoreset ==
    (InCoreset /\ coreset_ids # <<>>) =>
        /\ err # "IndexError: index array is not of integer type"
        /\ Subsampled =>
              LET rows == Take(kept_tsne, kept_coreset.data)
              IN  /\ CanIndex(kept_coreset)
                  /\ StrictlyIncreasing(rows)
                  /\ Range(rows) = Range(coreset_ids)
        /\ ret = "c_show" =>
              LET rows == Take(kept_tsne, kept_coreset.data)
              IN  /\ px = [i \in 1..Len(rows) |-> Point(rows[i])]
                  /\ py = [i \in 1..Len(rows) |-> y[rows[i] + 1]]

PointsOf(label) ==
    LET at == SelectSeq([i \in 1..Len(py) |-> i], LAMBDA i : py[i] = label)
    IN  [k \in 1..Len(at) |-> px[at[k]]]

\* C4: the noise layer never has a legend entry; the layer of a cluster L
\* has one, "Cluster L", exactly when counts[L + 1] > min_size (for a label
\* below -1 the offset is negative and is read from the end of counts); and
\* when the loop ends there is one layer per distinct label, in ascending
\* order, holding that label's points.
\* Scenario 1 (250 rows, labels -1..2, counts 50/30/150/20, threshold 100):
\* stride 2, 125 points, a legend entry for cluster 1 alone.
C4_LayerPerLabel ==
    /\ \A p \in 1..Len(axes) : \A i \in 1..Len(axes[p].layers) :
          LET l == axes[p].layers[i]
          IN  /\ l.of = -1 => l.label = NoLabel
              /\ l.of >= 0 =>
                    /\ l.label # NoLabel <=> counts[l.of + 2] > min_size
                    /\ l.label \in {NoLabel, ClusterName(l.of)}
              /\ l.of < -1 =>
                    /\ l.label # NoLabel
                          <=> counts[Len(counts) + l.of + 2] > min_size
                    /\ l.label \in {NoLabel, ClusterName(l.of)}
    /\ ((pc = "tsne_loop" /\ todo = <<>>) \/ pc = "tsne_finish") =>
          LET ls == CurPanel.layers
          IN  /\ StrictlyIncreasing([i \in 1..Len(ls) |-> ls[i].of])
              /\ {ls[i].of : i \in 1..Len(ls)} = Range(py)
              /\ \A i \in 1..Len(ls) : ls[i].pts = PointsOf(ls[i].of)
    /\ (InDbscan /\ pc = "done" /\ R = 250 /\ counts = ScenarioCounts
            /\ Range(y) = -1..2) =>
          /\ S = 2 /\ Len(px) = 125
          /\ CurPanel.legend.handles
                = <<[label |-> ClusterName(1), size |-> LegendMarkerSize]>>

\* a cluster whose count equals the threshold, drawn without a legend entry
C4_Witness ==
    /\ pc = "tsne_finish"
    /\ \E i \in 1..Len(CurPanel.layers) :
          LET l == CurPanel.layers[i]
          IN  l.of >= 0 /\ counts[l.of + 2] = min_size /\ l.label = NoLabel
    /\ \E i \in 1..Len(CurPanel.layers) : CurPanel.layers[i].label # NoLabel

\* scenario 3: 500 rows and the coreset {7, 450, 499}
Scenario3 == InCoreset /\ R = 500 /\ Range(coreset_ids) = {7, 450, 499}

\* C5, as claimed: in scenario 3 kept_tsne has 103 entries and the second
\* panel shows 3 points.
C5_AsClaimed ==
    Scenario3 =>
        /\ Subsampled => Len(kept_tsne) = 103
        /\ pc = "done" => PointCount(axes[2].layers) = 3

\* C5, amended: in scenario 3 the stride is 5, 100 rows are strided, and
\* kept_tsne has 102 entries, since 450 is itself a strided row; the second
\* panel shows 3 points.
C5_Amended ==
    Scenario3 =>
        /\ pc # "c_stride" => (S = 5 /\ Cardinality(StridedRows) = 100)
        /\ Subsampled =>
              /\ Len(kept_tsne) = 102
              /\ Len(kept_coreset.data) = 3
        /\ pc = "done" => PointCount(axes[2].layers) = 3

C5_Witness == Scenario3 /\ pc = "done" /\ Len(kept_tsne) = 102

\* C6, as claimed: a label other than -1 whose offset L + 1 lies outside
\* 0 .. len(counts) - 1, too large or negative, ends the call with an error:
\* no layer is drawn for it and the legend and title steps are not reached.
C6_AsClaimed ==
    LET outside == {L \in Range(py) \ {-1} : L + 1 < 0 \/ L + 1 >= Len(counts)}
    IN  /\ \A p \in 1..Len(axes) : \A i \in 1..Len(axes[p].layers) :
              axes[p].layers[i].of \notin outside
        /\ (outside # {} /\ pc \notin {"tsne_enter", "tsne_loop"}) =>
              (pc = "raised" /\ err = "IndexError: index out of bounds")

\* C6, the part of the claim the code keeps: an offset at or beyond
\* len(counts) ends the call with an IndexError before the legend step.
C6_TooLargeIsFatal ==
    LET beyond == {L \in Range(py) : L + 1 >= Len(counts) /\ L >= 0}
    IN  /\ \A p \in 1..Len(axes) : \A i \in 1..Len(axes[p].layers) :
              axes[p].layers[i].of \notin beyond
        /\ (fn = "plot_tsne" /\ beyond # {}
                /\ pc \notin {"tsne_enter", "tsne_loop"}) =>
              (pc = "raised" /\ err = "IndexError: index out of bounds")

\* the count a label's threshold decision reads
CountOf(L) == IF L >= 0 THEN counts[L + 2] ELSE counts[Len(counts) + L + 2]
Qualifying == {L \in Range(py) \ {-1} : CountOf(L) > min_size}
HandleLabels == {CurPanel.legend.handles[i].label :
                    i \in 1..Len(CurPanel.legend.handles)}

\* C7, as claimed: a legend is constructed exactly when legend display is
\* requested and some cluster qualifies.
C7_AsClaimed ==
    pc = "tsne_finish" =>
        (CurPanel.legend.made <=> (plegend /\ Qualifying # {}))

\* C7, amended: a legend is constructed exactly when legend display is
\* requested, also when no cluster qualifies (it is then empty); it has one
\* entry per qualifying cluster, each of the fixed legend size, which is
\* not the size of the layer's markers.
C7_Amended ==
    pc = "tsne_finish" =>
        /\ CurPanel.legend.made <=> plegend
        /\ CurPanel.legend.made =>
              /\ Len(CurPanel.legend.handles) = Cardinality(Qualifying)
              /\ HandleLabels = {ClusterName(L) : L \in Qualifying}
              /\ \A i \in 1..Len(CurPanel.legend.handles) :
                    /\ CurPanel.legend.handles[i].size = LegendMarkerSize
                    /\ \A j \in 1..Len(CurPanel.layers) :
                          CurPanel.layers[j].s # CurPanel.legend.handles[i].size
        /\ ~CurPanel.legend.made => CurPanel.legend.handles = <<>>

C7_Witness ==
    /\ pc = "tsne_finish" /\ plegend /\ CurPanel.legend.made
    /\ Cardinality(Qualifying) >= 2

AllLayers == UNION {Range(axes[p].layers) : p \in 1..Len(axes)}
IsNoise(l) == l.of = -1
IsSmallCluster(l) == l.of # -1 /\ l.label = NoLabel
IsBigCluster(l) == l.of # -1 /\ l.label # NoLabel

\* C8, as claimed: a cluster at or below the threshold has a marker smaller
\* than a qualifying cluster's and not larger than the noise marker.
C8_AsClaimed ==
    \A a, b \in AllLayers :
        IsSmallCluster(a) =>
            /\ IsBigCluster(b) => a.s < b.s
            /\ IsNoise(b) => a.s <= b.s

\* C8, amended: a cluster at or below the threshold has a marker smaller
\* than a qualifying cluster's and larger than the noise marker (s=1
\* against s=10 and s=0.1): the noise marker is the smallest one.
C8_Amended ==
    \A a, b \in AllLayers :
        IsSmallCluster(a) =>
            /\ IsBigCluster(b) => a.s < b.s
            /\ IsNoise(b) => b.s < a.s

C8_Witness ==
    \E a, b, c \in Range(CurPanel.layers) :
        IsSmallCluster(a) /\ IsBigCluster(b) /\ IsNoise(c)

CoresetCalls ==
    <<"fit_transform", "figure", "subplot", "plot_tsne", "subplot",
      "plot_tsne", "show">>

\* C9: plot_coreset_results calls, in this order and once each: the
\* projector on embeds[kept_tsne], plt.figure, panel 1 from every projected
\* row with y[kept_tsne], "Before Coreset" and no legend, panel 2 from the
\* rows kept_coreset of the same projection with "After Coreset" and no
\* legend, plt.show.
C9_CoresetOrder ==
    InCoreset =>
        /\ Len(trace) <= Len(CoresetCalls)
        /\ \A i \in 1..Len(trace) : trace[i].ev = CoresetCalls[i]
        /\ pc = "done" =>
              /\ Len(trace) = Len(CoresetCalls)
              /\ trace[1].x = Take(embeds, kept_tsne)
              /\ X_embedded.rows = FitTransform(trace[1].x)
              /\ trace[4] = Event("plot_tsne", X_embedded.rows,
                                  Take(y, kept_tsne), FALSE, "Before Coreset")
              /\ trace[6] = Event("plot_tsne",
                                  Take(X_embedded.rows, kept_coreset.data),
                                  Take(Take(y, kept_tsne), kept_coreset.data),
                                  FALSE, "After Coreset")
              /\ nfig = 1 /\ shown = 1 /\ Len(axes) = 2
              /\ axes[1].title = "Before Coreset"
              /\ axes[2].title = "After Coreset"
              /\ PointCount(axes[1].layers) = Len(kept_tsne)
              /\ PointCount(axes[2].layers) = Len(kept_coreset.data)
              /\ ~axes[1].legend.made /\ ~axes[2].legend.made

\* a finished run whose coreset is a proper part of the retained rows
C9_Witness ==
    /\ InCoreset /\ pc = "done"
    /\ 0 < Len(kept_coreset.data) /\ Len(kept_coreset.data) < Len(kept_tsne)

Projections ==
    Cardinality({i \in 1..Len(trace) : trace[i].ev = "fit_transform"})

\* C10: a failing projector ends the call with its error after one
\* projector call and before any figure, layer or display; a projection
\* result without the transfer capability is no error: the same array is
\* used and rendering goes on.
C10_ProjectionFailure ==
    (InDbscan \/ InCoreset) =>
        /\ Projections <= 1
        /\ err = "ProjectionError" =>
              /\ pc = "raised" /\ Projections = 1 /\ Len(trace) = 1
              /\ nfig = 0 /\ axes = <<>> /\ shown = 0
        /\ err # "AttributeError"
        /\ (pc \in {"d_transfer", "c_transfer"} /\ ~X_embedded.device) =>
              X_embedded.obj = "fit result"
        /\ (err = "none" /\ nfig > 0) =>
              /\ ~X_embedded.device
              /\ X_embedded.rows = FitTransform(trace[1].x)
              /\ X_embedded.obj \in {"fit result", "host copy"}

\* a host result, passed through unchanged, with the figure shown
C10_Witness ==
    /\ InDbscan /\ pc = "done" /\ shown = 1
    /\ X_embedded.obj = "fit result"

====
